---- MODULE Spec2Model ----
(***************************************************************************)
(* TRECDLAdapter (src/datasets/trecdl.py): an adapter over the ir_datasets *)
(* registry for the TREC Deep Learning 2019-2021 collections.              *)
(*                                                                         *)
(* The file defines the class twice; the second definition (lines 57-172)  *)
(* rebinds the name and is the one modelled here.                          *)
(*                                                                         *)
(* Optional values (Python's None) are sets with at most one element:      *)
(* None is {}, a value v is {v}.                                           *)
(***************************************************************************)
EXTENDS Integers, Sequences, FiniteSets, TLC

VARIABLES
    known,      \* the dataset identifiers the ir_datasets registry knows
    lookups,    \* the identifiers passed to ir_datasets.load so far, in order
    adapter,    \* the attributes of the TRECDLAdapter object
    newCall,    \* the constructor call made: its arguments and what it raised
    registry,   \* the streams of the dataset behind the adapter's handle
    gen,        \* the generator object made by iter_docs / iter_queries / iter_qrels
    loaded,     \* the load() call made last: its arguments and what it returned
    data,       \* the argument of the trec_df() call
    df          \* what trec_df() returned or raised

vars == <<known, lookups, adapter, newCall, registry, gen, loaded, data, df>>

None == {}
Some(v) == {v}
TheValue(opt) == CHOOSE v \in opt : TRUE

(***************************************************************************)
(* Strings: what an f-string does to an int and to a list.                 *)
(***************************************************************************)
Digit(d) == SubSeq("0123456789", d + 1, d + 1)

RECURSIVE Str(_)
Str(n) == IF n < 10 THEN Digit(n) ELSE Str(n \div 10) \o Digit(n % 10)

RECURSIVE JoinWith(_, _)
JoinWith(parts, sep) ==
    IF parts = <<>> THEN ""
    ELSE IF Len(parts) = 1 THEN parts[1]
    ELSE parts[1] \o sep \o JoinWith(Tail(parts), sep)

ReprInts(xs) == "[" \o JoinWith([i \in DOMAIN xs |-> Str(xs[i])], ", ") \o "]"
ReprStrs(xs) == "[" \o JoinWith([i \in DOMAIN xs |-> "'" \o xs[i] \o "'"], ", ") \o "]"

IsIn(x, xs) == \E i \in DOMAIN xs : xs[i] = x

(***************************************************************************)
(* Construction                                                            *)
(***************************************************************************)
YEARS == <<2019, 2020, 2021>>
MODES == <<"passage", "document">>

ValueError(msg) == [kind |-> "ValueError", msg |-> msg]
KeyError(msg) == [kind |-> "KeyError", msg |-> msg]

\* A naming scheme that sends 2020 to the v2 corpus as well.
DatasetIdV2From2020(year, mode) ==
    IF IsIn(year, <<2019>>)
    THEN "msmarco-" \o mode \o "/trec-dl-" \o Str(year)
    ELSE "msmarco-" \o mode \o "-v2/trec-dl-" \o Str(year)

DatasetId(year, mode) ==
    IF IsIn(year, <<2019, 2020>>)
    THEN "msmarco-" \o mode \o "/trec-dl-" \o Str(year)
    ELSE "msmarco-" \o mode \o "-v2/trec-dl-" \o Str(year)

\* ir_datasets.load: the handle of a known dataset, KeyError for an unknown one.
\* The handle is named by the identifier it was resolved from.
IrDatasetsLoad(dataset_id) ==
    IF dataset_id \in known
    THEN [exc |-> None, value |-> Some(dataset_id)]
    ELSE [exc |-> Some(KeyError(dataset_id)), value |-> None]

\* The lookup without its try/except: the registry's KeyError escapes.
LookupUnwrapped(dataset_id) == IrDatasetsLoad(dataset_id)

\* try: self.dataset = ir_datasets.load(dataset_id)
\* except KeyError: raise ValueError(...)
Lookup(dataset_id) ==
    LET r == IrDatasetsLoad(dataset_id) IN
    IF r.exc # None /\ TheValue(r.exc).kind = "KeyError"
    THEN [exc |-> Some(ValueError("Dataset not found in ir_datasets: " \o dataset_id)),
          value |-> None]
    ELSE r

Unset == [dataset |-> None, name |-> None, year |-> None, mode |-> None]

\* A constructor that resolves the dataset before it validates its arguments.
NewLookupFirst(year, mode) ==
    LET dataset_id == DatasetId(year, mode)
        r == Lookup(dataset_id)
    IN  IF ~IsIn(year, YEARS)
        THEN [exc |-> Some(ValueError("Supported years: " \o ReprInts(YEARS))),
              looked |-> <<dataset_id>>, self |-> Unset]
        ELSE IF ~IsIn(mode, MODES)
        THEN [exc |-> Some(ValueError("mode must be one of: " \o ReprStrs(MODES))),
              looked |-> <<dataset_id>>, self |-> Unset]
        ELSE IF r.exc # None
        THEN [exc |-> r.exc, looked |-> <<dataset_id>>, self |-> Unset]
        ELSE [exc |-> None, looked |-> <<dataset_id>>,
              self |-> [dataset |-> r.value, name |-> Some(dataset_id),
                        year |-> Some(year), mode |-> Some(mode)]]

\* TRECDLAdapter.__init__: what it raises, the identifiers it looks up, and the
\* attributes the object ends with (none when the constructor raises: the
\* assignments follow the last raise).
New(year, mode) ==
    IF ~IsIn(year, YEARS)
    THEN [exc |-> Some(ValueError("Supported years: " \o ReprInts(YEARS))),
          looked |-> <<>>, self |-> Unset]
    ELSE IF ~IsIn(mode, MODES)
    THEN [exc |-> Some(ValueError("mode must be one of: " \o ReprStrs(MODES))),
          looked |-> <<>>, self |-> Unset]
    ELSE LET dataset_id == DatasetId(year, mode)
             r == Lookup(dataset_id)
         IN  IF r.exc # None
             THEN [exc |-> r.exc, looked |-> <<dataset_id>>, self |-> Unset]
             ELSE [exc |-> None, looked |-> <<dataset_id>>,
                   self |-> [dataset |-> r.value, name |-> Some(dataset_id),
                             year |-> Some(year), mode |-> Some(mode)]]

(***************************************************************************)
(* The dataset behind the handle: three streams of records.                *)
(***************************************************************************)
MaxQrels == 2
MaxLimit == 2

QueryIds == {"q1", "q2"}
DocIds == {"d1", "d2"}

Doc(id) == [doc_id |-> id, text |-> "passage " \o id]
Query(id) == [query_id |-> id, text |-> "query " \o id]
Qrel(qid, docid) == [query_id |-> qid, doc_id |-> docid, relevance |-> 1]

Range(s) == {s[i] : i \in DOMAIN s}
Min(a, b) == IF a <= b THEN a ELSE b
Take(s, n) == SubSeq(s, 1, Min(n, Len(s)))

SeqsUpTo(S, n) == UNION {[1..k -> S] : k \in 0..n}
\* Every arrangement of every subset of S: ids are unique within a stream.
Arrangements(S) ==
    {s \in SeqsUpTo(S, Cardinality(S)) : \A i, j \in DOMAIN s : s[i] = s[j] => i = j}

RegistryOf(ds, qs, rs) ==
    [docs |-> [i \in DOMAIN ds |-> Doc(ds[i])],
     queries |-> [i \in DOMAIN qs |-> Query(qs[i])],
     qrels |-> [i \in DOMAIN rs |-> Qrel(rs[i][1], rs[i][2])]]

\* Every dataset over the ids: any arrangement of documents and of queries, any
\* judgments, among them judgments of absent queries and of absent documents.
Registries ==
    {RegistryOf(ds, qs, rs) :
        ds \in Arrangements(DocIds), qs \in Arrangements(QueryIds),
        rs \in SeqsUpTo(QueryIds \X DocIds, MaxQrels)}

\* The datasets that hold every document and every query.
FullRegistries ==
    {RegistryOf(<<"d1", "d2">>, <<"q1", "q2">>, rs) :
        rs \in SeqsUpTo(QueryIds \X DocIds, MaxQrels)}

NoRegistry == [docs |-> <<>>, queries |-> <<>>, qrels |-> <<>>]

Limits == {None} \cup {Some(k) : k \in 0..MaxLimit}
\* Python's truthiness of an Optional[int]: None and 0 are falsy.
Truthy(limit) == limit # None /\ TheValue(limit) # 0

\* A stream handed out by the handle that still remembers how far the live
\* generator over the same entity has read.
OpenStreamShared(kind) ==
    IF gen # None /\ TheValue(gen).kind = kind /\ TheValue(gen).stream # None
    THEN TheValue(TheValue(gen).stream)
    ELSE [kind |-> kind, pos |-> 0]

\* self.dataset.docs_iter() / queries_iter() / qrels_iter(): every call hands
\* out a new stream positioned at the start.
OpenStream(kind) == [kind |-> kind, pos |-> 0]

Remaining(s) == SubSeq(registry[s.kind], s.pos + 1, Len(registry[s.kind]))

(***************************************************************************)
(* load                                                                    *)
(*                                                                         *)
(* The registry may fail during any of the four passes (failPass in 1..4,  *)
(* 0 for no failure).  A pass that fails binds nothing: the comprehension  *)
(* or loop is left by the exception, so how far it got does not matter.    *)
(***************************************************************************)
FailPoints == 0..4

ReadAll(kind, pass, failPass) ==
    IF failPass = pass
    THEN [exc |-> TRUE, items |-> <<>>]
    ELSE [exc |-> FALSE, items |-> Remaining(OpenStream(kind))]

\* qrel_map.setdefault(r.query_id, []).append(r), for every r of the stream
RECURSIVE QrelMap(_, _)
QrelMap(rs, m) ==
    IF rs = <<>> THEN m
    ELSE LET r == Head(rs)
             k == r.query_id
         IN  QrelMap(Tail(rs),
                     IF k \in DOMAIN m
                     THEN [m EXCEPT ![k] = Append(@, r)]
                     ELSE m @@ (k :> <<r>>))

\* Step 2 without its filter: unjudged queries are kept.
RestrictQueriesUnjudged(queries, qrel_map, limit) ==
    IF Truthy(limit) THEN Take(queries, TheValue(limit)) ELSE queries

\* all_queries = [q for q in queries if q.query_id in qrel_map]
\* if limit: all_queries = all_queries[:limit]
RestrictQueries(queries, qrel_map, limit) ==
    LET all_queries == SelectSeq(queries, LAMBDA q : q.query_id \in DOMAIN qrel_map)
    IN  IF Truthy(limit) THEN Take(all_queries, TheValue(limit)) ELSE all_queries

EmptyResult == [docs |-> <<>>, queries |-> <<>>, qrels |-> <<>>]

\* The class's first definition of load (lines 33-47): the limit caps each raw
\* stream and nothing is filtered.
LoadBodyRaw(limit, failPass) ==
    LET d == ReadAll("docs", 1, failPass)
        q == ReadAll("queries", 2, failPass)
        r == ReadAll("qrels", 3, failPass)
        cap(s) == IF limit = None THEN s ELSE Take(s, TheValue(limit))
    IN  IF d.exc \/ q.exc \/ r.exc \/ failPass = 4
        THEN [exc |-> TRUE, value |-> EmptyResult]
        ELSE [exc |-> FALSE,
              value |-> [docs |-> cap(d.items), queries |-> cap(q.items),
                         qrels |-> cap(r.items)]]

\* The try block of load: exc when a pass failed, else the dictionary returned.
\* With exc the value is what the passes before the failing one had gathered.
LoadBody(limit, failPass) ==
    LET p1 == ReadAll("qrels", 1, failPass)
        qrel_map == QrelMap(p1.items, <<>>)
        p2 == ReadAll("queries", 2, failPass)
        all_queries == RestrictQueries(p2.items, qrel_map, limit)
        qids == {q.query_id : q \in Range(all_queries)}
        p3 == ReadAll("qrels", 3, failPass)
        qrels == SelectSeq(p3.items, LAMBDA r : r.query_id \in qids)
        docids == {r.doc_id : r \in Range(qrels)}
        p4 == ReadAll("docs", 4, failPass)
        docs == SelectSeq(p4.items, LAMBDA d : d.doc_id \in docids)
    IN  IF p1.exc THEN [exc |-> TRUE, value |-> EmptyResult]
        ELSE IF p2.exc THEN [exc |-> TRUE, value |-> EmptyResult]
        ELSE IF p3.exc
        THEN [exc |-> TRUE, value |-> [EmptyResult EXCEPT !.queries = all_queries]]
        ELSE IF p4.exc
        THEN [exc |-> TRUE,
              value |-> [EmptyResult EXCEPT !.queries = all_queries, !.qrels = qrels]]
        ELSE [exc |-> FALSE,
              value |-> [docs |-> docs, queries |-> all_queries, qrels |-> qrels]]

\* A handler that hands back what had been gathered when the failure came.
LoadPartial(limit, failPass) ==
    [raised |-> FALSE, value |-> LoadBody(limit, failPass).value]

\* try: ... return {...}   except Exception: ... return {"docs": [], ...}
Load(limit, failPass) ==
    LET body == LoadBody(limit, failPass)
    IN  IF body.exc
        THEN [raised |-> FALSE, value |-> EmptyResult]
        ELSE [raised |-> FALSE, value |-> body.value]

(***************************************************************************)
(* iter_docs, iter_queries, iter_qrels: generator functions.  Calling one  *)
(* makes a generator object and runs none of its body; each next() runs    *)
(* the body up to the next yield or to its end.                            *)
(***************************************************************************)
Kinds == {"docs", "queries", "qrels"}

NewGenerator(kind, limit) ==
    [kind |-> kind, limit |-> limit, at |-> "start", stream |-> None,
     count |-> 0, yielded |-> <<>>]

\* for x in stream: the loop head takes the next item and yields it, or ends.
LoopHead(g, s) ==
    IF s.pos < Len(registry[s.kind])
    THEN [g EXCEPT !.at = "yield", !.stream = Some([s EXCEPT !.pos = s.pos + 1]),
                   !.yielded = Append(g.yielded, registry[s.kind][s.pos + 1])]
    ELSE [g EXCEPT !.at = "end", !.stream = Some(s)]

\* A loop that tests the count against the limit with > instead of >=.
ResumeOneMore(g) ==
    IF g.at = "start" THEN LoopHead([g EXCEPT !.count = 0], OpenStream(g.kind))
    ELSE IF g.at = "yield"
    THEN LET h == [g EXCEPT !.count = g.count + 1]
         IN  IF Truthy(h.limit) /\ h.count > TheValue(h.limit)
             THEN [h EXCEPT !.at = "end"]
             ELSE LoopHead(h, TheValue(h.stream))
    ELSE g

\* next() on the generator:
\*   count = 0
\*   for x in self.dataset.<kind>_iter():
\*       yield x
\*       count += 1
\*       if limit and count >= limit: break
Resume(g) ==
    IF g.at = "start" THEN LoopHead([g EXCEPT !.count = 0], OpenStream(g.kind))
    ELSE IF g.at = "yield"
    THEN LET h == [g EXCEPT !.count = g.count + 1]
         IN  IF Truthy(h.limit) /\ h.count >= TheValue(h.limit)
             THEN [h EXCEPT !.at = "end"]
             ELSE LoopHead(h, TheValue(h.stream))
    ELSE g

(***************************************************************************)
(* Construction: one TRECDLAdapter(year, mode) call against a registry     *)
(* that knows any subset of the six collections.                           *)
(***************************************************************************)
Collections ==
    {"msmarco-passage/trec-dl-2019", "msmarco-passage/trec-dl-2020",
     "msmarco-passage-v2/trec-dl-2021", "msmarco-document/trec-dl-2019",
     "msmarco-document/trec-dl-2020", "msmarco-document-v2/trec-dl-2021"}

YearArgs == {2018, 2019, 2020, 2021, 2022}
ModeArgs == {"passage", "document", "passages", ""}

InitNew ==
    /\ known \in SUBSET Collections
    /\ newCall = None
    /\ lookups = <<>>
    /\ adapter = Unset
    /\ registry = NoRegistry
    /\ gen = None
    /\ loaded = None
    /\ data = None
    /\ df = None

Construct(year, mode) ==
    /\ newCall = None
    /\ LET r == New(year, mode)
       IN  /\ newCall' = Some([year |-> year, mode |-> mode, exc |-> r.exc])
           /\ lookups' = lookups \o r.looked
           /\ adapter' = r.self
    /\ UNCHANGED <<known, registry, gen, loaded, data, df>>

NextNew == \E year \in YearArgs, mode \in ModeArgs : Construct(year, mode)

SpecNew == InitNew /\ [][NextNew]_vars

(***************************************************************************)
(* The adapter in use: the state after TRECDLAdapter() with its default    *)
(* arguments over a registry that knows the dataset.                       *)
(***************************************************************************)
DefaultYear == 2020
DefaultMode == "passage"

Constructed ==
    /\ known = {"msmarco-passage/trec-dl-2020"}
    /\ newCall = Some([year |-> DefaultYear, mode |-> DefaultMode, exc |-> None])
    /\ lookups = New(DefaultYear, DefaultMode).looked
    /\ adapter = New(DefaultYear, DefaultMode).self

CallLoad(limit, failPass) ==
    /\ loaded' = Some([limit |-> limit, failPass |-> failPass,
                       result |-> Load(limit, failPass)])
    /\ UNCHANGED <<known, lookups, adapter, newCall, registry, gen, data, df>>

IterDocs(limit) ==
    /\ gen' = Some(NewGenerator("docs", limit))
    /\ UNCHANGED <<known, lookups, adapter, newCall, registry, loaded, data, df>>

IterQueries(limit) ==
    /\ gen' = Some(NewGenerator("queries", limit))
    /\ UNCHANGED <<known, lookups, adapter, newCall, registry, loaded, data, df>>

IterQrels(limit) ==
    /\ gen' = Some(NewGenerator("qrels", limit))
    /\ UNCHANGED <<known, lookups, adapter, newCall, registry, loaded, data, df>>

\* The caller asks the generator for its next item.
GenNext ==
    /\ gen # None
    /\ gen' = Some(Resume(TheValue(gen)))
    /\ UNCHANGED <<known, lookups, adapter, newCall, registry, loaded, data, df>>

\* load alone, over every dataset.
NoCallYet == gen = None /\ loaded = None /\ data = None /\ df = None

InitLoad == Constructed /\ NoCallYet /\ registry \in Registries

NextLoad == \E limit \in Limits, failPass \in FailPoints : CallLoad(limit, failPass)

SpecLoad == InitLoad /\ [][NextLoad]_vars

\* The three iterators alone, over every dataset.
InitIter == Constructed /\ NoCallYet /\ registry \in Registries

NextIter ==
    \/ \E limit \in Limits : IterDocs(limit)
    \/ \E limit \in Limits : IterQueries(limit)
    \/ \E limit \in Limits : IterQrels(limit)
    \/ GenNext

SpecIter == InitIter /\ [][NextIter]_vars

\* Every call of the adapter, in any order, over the datasets that hold every
\* document and every query.
Init == Constructed /\ NoCallYet /\ registry \in FullRegistries

Next ==
    \/ \E limit \in Limits, failPass \in FailPoints : CallLoad(limit, failPass)
    \/ \E limit \in Limits : IterDocs(limit)
    \/ \E limit \in Limits : IterQueries(limit)
    \/ \E limit \in Limits : IterQrels(limit)
    \/ GenNext

Spec == Init /\ [][Next]_vars

(***************************************************************************)
(* trec_df: the join of the judgments with the query and document texts.   *)
(* The argument is a dictionary; a record may lack its text or relevance.  *)
(***************************************************************************)
MaxDfDocs == 2
MaxDfQueries == 1
MaxDfQrels == 2

\* getattr(obj, name, default)
GetAttr(obj, name, default) == IF name \in DOMAIN obj THEN obj[name] ELSE default

\* dict.get(key): None for an absent key
Get(dict, key) == IF key \in DOMAIN dict THEN Some(dict[key]) ELSE None

\* {key(x): getattr(x, "text", "") for x in items}: a later item replaces an
\* earlier one with the same key.
RECURSIVE TextLookup(_, _, _)
TextLookup(items, key, dict) ==
    IF items = <<>> THEN dict
    ELSE LET k == Head(items)[key]
             v == GetAttr(Head(items), "text", "")
         IN  TextLookup(Tail(items), key,
                        IF k \in DOMAIN dict
                        THEN [dict EXCEPT ![k] = v]
                        ELSE dict @@ (k :> v))

\* A test that asks only whether both lookups found an entry.
KeepRowIfFound(query, passage) == query # None /\ passage # None

\* if query and passage: None and "" are falsy
KeepRow(query, passage) ==
    /\ query # None /\ TheValue(query) # ""
    /\ passage # None /\ TheValue(passage) # ""

RECURSIVE Rows(_, _, _)
Rows(qrels, query_lookup, doc_lookup) ==
    IF qrels = <<>> THEN <<>>
    ELSE LET r == Head(qrels)
             qid == r.query_id
             docid == r.doc_id
             rel == GetAttr(r, "relevance", 0)
             query == Get(query_lookup, qid)
             passage == Get(doc_lookup, docid)
             rest == Rows(Tail(qrels), query_lookup, doc_lookup)
         IN  IF KeepRow(query, passage)
             THEN <<<<qid, TheValue(query), docid, TheValue(passage), rel>>>> \o rest
             ELSE rest

DfKeys == {"docs", "queries", "qrels"}
DfColumns == <<"qid", "query", "docid", "passage", "rel">>

TrecDf(d) ==
    IF ~(\A k \in DfKeys : k \in DOMAIN d)
    THEN [exc |-> Some(ValueError("Input must contain 'docs', 'queries', and 'qrels' keys.")),
          columns |-> <<>>, rows |-> <<>>]
    ELSE LET doc_lookup == TextLookup(d["docs"], "doc_id", <<>>)
             query_lookup == TextLookup(d["queries"], "query_id", <<>>)
         IN  [exc |-> None, columns |-> DfColumns,
              rows |-> Rows(d["qrels"], query_lookup, doc_lookup)]

DfDocs ==
    {[doc_id |-> "d1", text |-> "x is a thing"], [doc_id |-> "d1", text |-> ""],
     [doc_id |-> "d1"], [doc_id |-> "d2", text |-> "y is another"]}
DfQueries ==
    {[query_id |-> "q1", text |-> "what is x"], [query_id |-> "q1", text |-> ""],
     [query_id |-> "q1"]}
DfQrels ==
    {[query_id |-> "q1", doc_id |-> "d1", relevance |-> 2],
     [query_id |-> "q1", doc_id |-> "d1"],
     [query_id |-> "q1", doc_id |-> "d2", relevance |-> 1],
     [query_id |-> "q2", doc_id |-> "d1", relevance |-> 0]}

\* Dictionaries with all three keys, and dictionaries without "qrels".
DfInputs ==
    {[docs |-> ds, queries |-> qs, qrels |-> rs] :
        ds \in SeqsUpTo(DfDocs, MaxDfDocs), qs \in SeqsUpTo(DfQueries, MaxDfQueries),
        rs \in SeqsUpTo(DfQrels, MaxDfQrels)}
    \cup
    {[docs |-> ds, queries |-> qs] :
        ds \in SeqsUpTo(DfDocs, MaxDfDocs), qs \in SeqsUpTo(DfQueries, MaxDfQueries)}

InitDf ==
    /\ Constructed
    /\ registry = NoRegistry
    /\ gen = None
    /\ loaded = None
    /\ data \in {Some(d) : d \in DfInputs}
    /\ df = None

CallTrecDf ==
    /\ df = None
    /\ df' = Some(TrecDf(TheValue(data)))
    /\ UNCHANGED <<known, lookups, adapter, newCall, registry, gen, loaded, data>>

NextDf == CallTrecDf

SpecDf == InitDf /\ [][NextDf]_vars

(***************************************************************************)
(* Properties of construction (SpecNew)                                    *)
(***************************************************************************)
ValidArgs(c) == c.year \in {2019, 2020, 2021} /\ c.mode \in {"passage", "document"}

\* The documented naming schemes, written out.
SchemeId(year, mode) ==
    CASE year = 2019 /\ mode = "passage" -> "msmarco-passage/trec-dl-2019"
      [] year = 2020 /\ mode = "passage" -> "msmarco-passage/trec-dl-2020"
      [] year = 2021 /\ mode = "passage" -> "msmarco-passage-v2/trec-dl-2021"
      [] year = 2019 /\ mode = "document" -> "msmarco-document/trec-dl-2019"
      [] year = 2020 /\ mode = "document" -> "msmarco-document/trec-dl-2020"
      [] year = 2021 /\ mode = "document" -> "msmarco-document-v2/trec-dl-2021"

YearsMessage == "Supported years: [2019, 2020, 2021]"
ModesMessage == "mode must be one of: ['passage', 'document']"

\* The kinds of the errors raised for a bad year or mode.
ConfigErrorKinds ==
    {TheValue(New(y, m).exc).kind :
        <<y, m>> \in {a \in YearArgs \X ModeArgs :
                        ~ValidArgs([year |-> a[1], mode |-> a[2]])}}

NotFound(c) == ValidArgs(c) /\ SchemeId(c.year, c.mode) \notin known

C6_ValidationBeforeLookup ==
    \A c \in newCall :
        ~ValidArgs(c) =>
            /\ c.exc = Some([kind |-> "ValueError",
                             msg |-> IF c.year \notin {2019, 2020, 2021}
                                     THEN YearsMessage ELSE ModesMessage])
            /\ lookups = <<>>
            /\ adapter = Unset

C6_Witness ==
    \E c \in newCall :
        /\ c.year = 2020 /\ c.mode = "passages"
        /\ known = Collections
        /\ c.exc # None
        /\ lookups = <<>>

\* C9: for a valid (year, mode) the identifier of the documented scheme, and
\* only it, is passed to the registry; when the registry knows it the adapter
\* exposes it as its name, with the year and mode given.
C9_IdentifierScheme ==
    \A c \in newCall :
        ValidArgs(c) =>
            /\ lookups = <<SchemeId(c.year, c.mode)>>
            /\ c.exc = None <=> SchemeId(c.year, c.mode) \in known
            /\ c.exc = None =>
                 adapter = [dataset |-> Some(SchemeId(c.year, c.mode)),
                            name |-> Some(SchemeId(c.year, c.mode)),
                            year |-> Some(c.year), mode |-> Some(c.mode)]

C9_Witness ==
    \E c \in newCall :
        /\ c.year = 2020 /\ c.mode = "document" /\ c.exc = None
        /\ adapter.name = Some("msmarco-document/trec-dl-2020")
        /\ adapter.year = Some(2020) /\ adapter.mode = Some("document")

(***************************************************************************)
(* Properties of load (SpecLoad)                                           *)
(***************************************************************************)
Judged(q) == \E j \in Range(registry.qrels) : j.query_id = q.query_id
JudgedQueries == SelectSeq(registry.queries, Judged)

\* C1: whatever the dataset and the limit (None or k >= 0), the result of load
\* has no orphans: every returned query has a returned judgment, every returned
\* judgment is of a returned query, every returned document is referenced by a
\* returned judgment.
C1_Closure ==
    \A c \in loaded :
        LET r == c.result.value IN
        /\ \A q \in Range(r.queries) : \E j \in Range(r.qrels) : j.query_id = q.query_id
        /\ \A j \in Range(r.qrels) : \E q \in Range(r.queries) : q.query_id = j.query_id
        /\ \A d \in Range(r.docs) : \E j \in Range(r.qrels) : j.doc_id = d.doc_id

C1_Witness ==
    \E c \in loaded :
        /\ c.limit = Some(1) /\ c.failPass = 0
        /\ Len(JudgedQueries) = 2
        /\ Len(c.result.value.queries) = 1
        /\ Len(c.result.value.qrels) = 1
        /\ Len(registry.docs) = 2 /\ Len(c.result.value.docs) = 1

\* C2, as claimed: load(limit=k) with 0 <= k <= the number of judged queries
\* returns exactly k queries, the first k judged queries in registry order.
C2_ExactlyKJudged ==
    \A c \in loaded :
        (c.failPass = 0 /\ c.limit # None /\ TheValue(c.limit) <= Len(JudgedQueries)) =>
            /\ Len(c.result.value.queries) = TheValue(c.limit)
            /\ c.result.value.queries = SubSeq(JudgedQueries, 1, TheValue(c.limit))

\* C3: load does not raise, and a failure of the registry in any of the four
\* passes leaves all three sequences of the result empty.
C3_FailureGivesEmpty ==
    \A c \in loaded :
        /\ ~c.result.raised
        /\ c.failPass # 0 => c.result.value = [docs |-> <<>>, queries |-> <<>>, qrels |-> <<>>]

\* The documents pass fails after the first three passes had gathered a query
\* and a judgment.
C3_Witness ==
    \E c \in loaded :
        /\ c.failPass = 4
        /\ JudgedQueries # <<>>
        /\ c.result.value.queries = <<>>
        /\ c.result.value.qrels = <<>>

\* C4: with limit None the result holds, in registry order, every query that
\* has a judgment, every judgment of such a query and every document such a
\* judgment names, and nothing else.
C4_UnlimitedComplete ==
    \A c \in loaded :
        (c.limit = None /\ c.failPass = 0) =>
            LET r == c.result.value
                OfJudged(j) == \E q \in Range(JudgedQueries) : q.query_id = j.query_id
                qrels == SelectSeq(registry.qrels, OfJudged)
                Named(d) == \E j \in Range(qrels) : j.doc_id = d.doc_id
            IN  /\ r.queries = JudgedQueries
                /\ r.qrels = qrels
                /\ r.docs = SelectSeq(registry.docs, Named)

\* A dataset with an unjudged query and an unjudged document beside a query
\* with two judgments of one document.
C4_Witness ==
    \E c \in loaded :
        /\ c.limit = None /\ c.failPass = 0
        /\ Len(registry.queries) = 2 /\ Len(c.result.value.queries) = 1
        /\ Len(registry.qrels) = 2 /\ Len(c.result.value.qrels) = 2
        /\ Len(registry.docs) = 2 /\ Len(c.result.value.docs) = 1

(***************************************************************************)
(* Properties of the iterators (SpecIter)                                  *)
(***************************************************************************)
\* C7: what a generator has yielded is at every moment a prefix of its stream,
\* nothing skipped; once it has ended it has yielded the first min(k, n) items
\* for a limit k >= 1 and all n items for a limit of None or 0.
C7_IteratorsPassThrough ==
    \A g \in gen :
        LET stream == registry[g.kind]
            n == Len(stream)
        IN  /\ Len(g.yielded) <= n
            /\ g.yielded = SubSeq(stream, 1, Len(g.yielded))
            /\ g.at = "end" =>
                 Len(g.yielded) = IF g.limit # None /\ TheValue(g.limit) >= 1
                                  THEN Min(TheValue(g.limit), n) ELSE n

\* iter_docs(limit=1) has ended after yielding the first document, which no
\* judgment names, of a stream of two.
C7_Witness ==
    \E g \in gen :
        /\ g.kind = "docs" /\ g.limit = Some(1) /\ g.at = "end"
        /\ Len(registry.docs) = 2
        /\ g.yielded = <<registry.docs[1]>>
        /\ \A j \in Range(registry.qrels) : j.doc_id # registry.docs[1].doc_id
        /\ registry.qrels # <<>>

(***************************************************************************)
(* Properties of the calls together (Spec)                                 *)
(***************************************************************************)
\* What load returns over streams read from their start.
FromStart(limit, failPass) ==
    LET queries == IF limit # None /\ TheValue(limit) # 0
                   THEN SubSeq(JudgedQueries, 1, Min(TheValue(limit), Len(JudgedQueries)))
                   ELSE JudgedQueries
        Kept(j) == \E q \in Range(queries) : q.query_id = j.query_id
        qrels == SelectSeq(registry.qrels, Kept)
        Named(d) == \E j \in Range(qrels) : j.doc_id = d.doc_id
    IN  IF failPass # 0 THEN [docs |-> <<>>, queries |-> <<>>, qrels |-> <<>>]
        ELSE [docs |-> SelectSeq(registry.docs, Named), queries |-> queries,
              qrels |-> qrels]

MappedText(items, key, id) ==
    LET at == {i \in DOMAIN items : items[i][key] = id}
    IN  IF at = {} THEN None
        ELSE LET last == CHOOSE i \in at : \A k \in at : k <= i
             IN  IF "text" \in DOMAIN items[last] THEN Some(items[last].text) ELSE Some("")

\* C8: on an input with all three keys trec_df does not raise and returns, in
\* judgment order, one row (query id, query text, doc id, document text,
\* relevance) for each judgment whose query id and doc id both map to a
\* non-empty text, and no other row.
C8_RowsAreJoinedJudgments ==
    \A d \in data : \A out \in df :
        (\A k \in {"docs", "queries", "qrels"} : k \in DOMAIN d) =>
            LET QText(j) == MappedText(d.queries, "query_id", j.query_id)
                DText(j) == MappedText(d.docs, "doc_id", j.doc_id)
                Joins(j) == QText(j) \notin {None, Some("")} /\ DText(j) \notin {None, Some("")}
                kept == SelectSeq(d.qrels, Joins)
            IN  /\ out.exc = None
                /\ Len(out.rows) = Len(kept)
                /\ \A i \in DOMAIN kept :
                     /\ out.rows[i][1] = kept[i].query_id
                     /\ out.rows[i][2] = TheValue(QText(kept[i]))
                     /\ out.rows[i][3] = kept[i].doc_id
                     /\ out.rows[i][4] = TheValue(DText(kept[i]))
                     /\ out.rows[i][5] = IF "relevance" \in DOMAIN kept[i]
                                         THEN kept[i].relevance ELSE 0

\* Two judgments, the first dropped because its document's text is empty.
C8_Witness ==
    \E d \in data : \E out \in df :
        /\ "qrels" \in DOMAIN d
        /\ d.docs = <<[doc_id |-> "d1", text |-> ""], [doc_id |-> "d2", text |-> "y is another"]>>
        /\ d.qrels = <<[query_id |-> "q1", doc_id |-> "d1", relevance |-> 2],
                       [query_id |-> "q1", doc_id |-> "d2", relevance |-> 1]>>
        /\ out.rows = <<<<"q1", "what is x", "d2", "y is another", 1>>>>

====
